---- MODULE Spec2Model ----
(***************************************************************************)
(* Model of lang/src/accounts/migration.rs: the Migration<From, To>        *)
(* account wrapper.  One record (AccountInfo) can be wrapped by the        *)
(* handles of Handles; the schema pair is the documented TypeA -> TypeB    *)
(* example (migration.rs lines 39-68).  A second part models               *)
(* lang/src/compressed_state.rs: CompressedState::try_from and             *)
(* verify_state, applied to inputs drawn by InitCS.  A third part applies   *)
(* Accounts::try_accounts (migration.rs lines 239-252) to account lists     *)
(* drawn by InitTA.                                                        *)
(***************************************************************************)
EXTENDS Integers, Sequences, FiniteSets, TLC

\* ------------------------------------------------------------------ bounds
MaxBump == 2            \* From values tried: bump b in 1..MaxBump with b - 1 data bytes
Slack == 2              \* spare bytes of the largest buffer beyond a serialized TypeB
MaxSteps == 4           \* calls and environment steps of one behaviour
MaxCand == 2            \* longest candidate state handed to verify_state
MaxTrail == 2           \* most bytes of an input after a 32-byte commitment
MaxAccounts == 2        \* longest account list handed to try_accounts

\* ------------------------------------------------------- program constants
DiscLen == 8            \* the 8 of INIT_SPACE = 8 + 1 + 4 + ..
BumpLen == 1            \* the 1 of INIT_SPACE (bump: u8)
VecLenLen == 4          \* the 4 of INIT_SPACE (u32 length prefix of a Vec)
MigrateDataLen == 64    \* vec![0x0b; 64]
MigrateFill == 11       \* 0x0b
HashEnd == 33           \* data.get(1..33): end of the commitment in the input

\* ------------------------------------------------------------ identities
SystemProgram == "system_program"
Owners == {"P", SystemProgram}
Handles == {1, 2}
\* Balances tried: try_from only tests the balance against zero.
Lamports == {0, 10}

\* Account discriminators of the two schema types (8 opaque bytes each).
DiscA == [i \in 1..DiscLen |-> 161]
DiscB == [i \in 1..DiscLen |-> 178]

\* ---------------------------------------------------------------- values
FromValues == {[bump |-> b, data |-> [i \in 1..(b - 1) |-> i]] : b \in 1..MaxBump}
NoValue == [bump |-> 0, data |-> <<>>]

Min(a, b) == IF a < b THEN a ELSE b

\* u32 little-endian length prefix, as borsh writes it.
LE32(n) == <<n % 256, (n \div 256) % 256, (n \div 65536) % 256, (n \div 16777216) % 256>>
FromLE32(s) == s[1] + 256 * s[2] + 65536 * s[3] + 16777216 * s[4]

\* Caller-supplied mapping TypeA -> TypeB.
Migrate(v) == [bump |-> v.bump, data |-> [i \in 1..MigrateDataLen |-> MigrateFill]]

\* --------------------------------------------------------------- results
Ok == [code |-> "Ok", keys |-> <<>>]
Err(c) == [code |-> c, keys |-> <<>>]
ErrKeys(c, actual, expected) == [code |-> c, keys |-> <<actual, expected>>]

\* ------------------------------------------------------------------ codec
\* Body of a value after the discriminator: bump, u32 length, bytes.
Chunks(disc, v) == <<disc, <<v.bump>>, LE32(Len(v.data)), v.data>>
Serialized(disc, v) == disc \o <<v.bump>> \o LE32(Len(v.data)) \o v.data

BorshDeserialize(b) ==
    IF Len(b) < BumpLen + VecLenLen
    THEN [ok |-> FALSE, val |-> NoValue, err |-> "AccountDidNotDeserialize"]
    ELSE LET n == FromLE32(SubSeq(b, BumpLen + 1, BumpLen + VecLenLen))
         IN IF Len(b) < BumpLen + VecLenLen + n
            THEN [ok |-> FALSE, val |-> NoValue, err |-> "AccountDidNotDeserialize"]
            ELSE [ok |-> TRUE,
                  val |-> [bump |-> b[1],
                           data |-> SubSeq(b, BumpLen + VecLenLen + 1, BumpLen + VecLenLen + n)],
                  err |-> "Ok"]

TryDeserialize(disc, buf) ==
    IF Len(buf) < DiscLen
    THEN [ok |-> FALSE, val |-> NoValue, err |-> "AccountDiscriminatorNotFound"]
    ELSE IF SubSeq(buf, 1, DiscLen) # disc
    THEN [ok |-> FALSE, val |-> NoValue, err |-> "AccountDiscriminatorMismatch"]
    ELSE BorshDeserialize(SubSeq(buf, DiscLen + 1, Len(buf)))

TryDeserializeUnchecked(buf) ==
    IF Len(buf) < DiscLen
    THEN [ok |-> FALSE, val |-> NoValue, err |-> "AccountDidNotDeserialize"]
    ELSE BorshDeserialize(SubSeq(buf, DiscLen + 1, Len(buf)))

\* ------------------------------------------------------------- BpfWriter
BpfWriterNew(dst) == [inner |-> dst, pos |-> 0]

Write(w, buf) ==
    IF w.pos >= Len(w.inner)
    THEN [w |-> w, amt |-> 0]
    ELSE LET amt == Min(Len(w.inner) - w.pos, Len(buf))
         IN [w |-> [inner |-> [i \in 1..Len(w.inner) |->
                                  IF w.pos < i /\ i <= w.pos + amt
                                  THEN buf[i - w.pos] ELSE w.inner[i]],
                    pos |-> w.pos + amt],
             amt |-> amt]

WriteAll(w, buf) ==
    LET r == Write(w, buf) IN [w |-> r.w, ok |-> r.amt = Len(buf)]

RECURSIVE WriteChunks(_, _, _)
WriteChunks(w, chunks, i) ==
    IF i > Len(chunks) THEN [w |-> w, ok |-> TRUE]
    ELSE LET r == WriteAll(w, chunks[i])
         IN IF r.ok THEN WriteChunks(r.w, chunks, i + 1) ELSE r

\* AccountSerialize::try_serialize of a To value into the writer.
TrySerialize(v, w) == WriteChunks(w, Chunks(DiscB, v), 1)

\* ------------------------------------------------------------------ state
VARIABLES
    fromOwner,  \* MigrateFrom::owner(), fixed for a behaviour
    info,       \* the record: [owner, lamports, data, closed]
    borrow,     \* borrow of info.data held by the calling code: none / shared / mut
    handles,    \* Handles -> [live, account, exits]: exits counts the exits returned
    last,       \* the last call and what it returned
    steps,      \* steps taken so far
    cs,         \* CompressedState calls: [data, op, decoded, candidate, verified]
    ta          \* try_accounts calls: [accounts, op, before, res, val]

vars == <<fromOwner, info, borrow, handles, last, steps, cs, ta>>

NoHandle == [live |-> FALSE, account |-> NoValue, exits |-> 0]
NoCall == [op |-> "none", h |-> 0, res |-> Ok, eo |-> "-", pid |-> "-"]
\* cs before any CompressedState call, holding the input bytes d.
Received(d) == [data |-> d, op |-> "none", decoded |-> [res |-> Ok, val |-> NoValue],
                candidate |-> <<>>, verified |-> Ok]
NoInput == Received(<<>>)
\* ta before any try_accounts call, holding the account list l.
Remaining(l) == [accounts |-> l, op |-> "none", before |-> l, res |-> Ok,
                 val |-> NoValue]
NoAccounts == Remaining(<<>>)
Call(op, h, res) == [op |-> op, h |-> h, res |-> res, eo |-> "-", pid |-> "-"]

\* Buffer of `cap` bytes holding `bytes` from offset 0, cut or zero-filled.
Fit(bytes, cap) == [i \in 1..cap |-> IF i <= Len(bytes) THEN bytes[i] ELSE 0]

SizeA == DiscLen + BumpLen + VecLenLen + (MaxBump - 1)
SizeB == DiscLen + BumpLen + VecLenLen + MigrateDataLen
\* Buffer sizes tried: roomy, exact, one byte short of a TypeB, a TypeA only,
\* shorter than a discriminator.
Capacities == <<SizeB + Slack, SizeB, SizeB - 1, SizeA, DiscLen - 1>>
OwnerList == <<"P", SystemProgram>>

Init ==
    /\ \E k \in 1..Len(OwnerList) : fromOwner = OwnerList[k]
    /\ \E k \in 1..Len(OwnerList), l \in Lamports, v \in FromValues,
          c \in 1..Len(Capacities) :
          info = [owner |-> OwnerList[k], lamports |-> l,
                  data |-> Fit(Serialized(DiscA, v), Capacities[c]), closed |-> FALSE]
    /\ borrow = "none"
    /\ handles = [h \in Handles |-> NoHandle]
    /\ last = NoCall
    /\ steps = 0
    /\ cs = NoInput
    /\ ta = NoAccounts

\* ------------------------------------------------------- pure operations
is_closed(i) == i.closed

\* try_from with the owner check ahead of the initialization check.
try_from_owner_first(i, b, fo) ==
    IF i.owner # fo
    THEN [res |-> ErrKeys("AccountOwnedByWrongProgram", i.owner, fo), val |-> NoValue]
    ELSE IF i.owner = SystemProgram /\ i.lamports = 0
    THEN [res |-> Err("AccountNotInitialized"), val |-> NoValue]
    ELSE IF b = "mut"
    THEN [res |-> Err("AccountBorrowFailed"), val |-> NoValue]
    ELSE LET d == TryDeserialize(DiscA, i.data)
         IN IF d.ok THEN [res |-> Ok, val |-> d.val]
                    ELSE [res |-> Err(d.err), val |-> NoValue]

\* try_from with || for && in the initialization check.
try_from_or(i, b, fo) ==
    IF i.owner = SystemProgram \/ i.lamports = 0
    THEN [res |-> Err("AccountNotInitialized"), val |-> NoValue]
    ELSE IF i.owner # fo
    THEN [res |-> ErrKeys("AccountOwnedByWrongProgram", i.owner, fo), val |-> NoValue]
    ELSE IF b = "mut"
    THEN [res |-> Err("AccountBorrowFailed"), val |-> NoValue]
    ELSE LET d == TryDeserialize(DiscA, i.data)
         IN IF d.ok THEN [res |-> Ok, val |-> d.val]
                    ELSE [res |-> Err(d.err), val |-> NoValue]

\* Result of Migration::try_from on record i with caller borrow b.
try_from(i, b, fo) ==
    IF i.owner = SystemProgram /\ i.lamports = 0
    THEN [res |-> Err("AccountNotInitialized"), val |-> NoValue]
    ELSE IF i.owner # fo
    THEN [res |-> ErrKeys("AccountOwnedByWrongProgram", i.owner, fo), val |-> NoValue]
    ELSE IF b = "mut"
    THEN [res |-> Err("AccountBorrowFailed"), val |-> NoValue]
    ELSE LET d == TryDeserialize(DiscA, i.data)
         IN IF d.ok THEN [res |-> Ok, val |-> d.val]
                    ELSE [res |-> Err(d.err), val |-> NoValue]

\* try_from_unchecked that decodes before it looks at the owner.
try_from_unchecked_decode_first(i, b, fo) ==
    LET d == TryDeserializeUnchecked(i.data)
    IN IF ~d.ok
       THEN [res |-> Err(d.err), val |-> NoValue]
       ELSE IF i.owner = SystemProgram /\ i.lamports = 0
       THEN [res |-> Err("AccountNotInitialized"), val |-> NoValue]
       ELSE IF i.owner # fo
       THEN [res |-> ErrKeys("AccountOwnedByWrongProgram", i.owner, fo), val |-> NoValue]
       ELSE IF b = "mut"
       THEN [res |-> Err("AccountBorrowFailed"), val |-> NoValue]
       ELSE [res |-> Ok, val |-> d.val]

\* try_from_unchecked that trusts the caller for the owner as well.
try_from_unchecked_any_owner(i, b, fo) ==
    IF i.owner = SystemProgram /\ i.lamports = 0
    THEN [res |-> Err("AccountNotInitialized"), val |-> NoValue]
    ELSE IF b = "mut"
    THEN [res |-> Err("AccountBorrowFailed"), val |-> NoValue]
    ELSE LET d == TryDeserializeUnchecked(i.data)
         IN IF d.ok THEN [res |-> Ok, val |-> d.val]
                    ELSE [res |-> Err(d.err), val |-> NoValue]

\* Result of Migration::try_from_unchecked on record i with caller borrow b.
try_from_unchecked(i, b, fo) ==
    IF i.owner = SystemProgram /\ i.lamports = 0
    THEN [res |-> Err("AccountNotInitialized"), val |-> NoValue]
    ELSE IF i.owner # fo
    THEN [res |-> ErrKeys("AccountOwnedByWrongProgram", i.owner, fo), val |-> NoValue]
    ELSE IF b = "mut"
    THEN [res |-> Err("AccountBorrowFailed"), val |-> NoValue]
    ELSE LET d == TryDeserializeUnchecked(i.data)
         IN IF d.ok THEN [res |-> Ok, val |-> d.val]
                    ELSE [res |-> Err(d.err), val |-> NoValue]

\* exit that serializes the held value's fields without calling migrate().
exit_without_migrate(account, i, b, expected_owner, program_id) ==
    IF expected_owner = program_id /\ ~is_closed(i)
    THEN IF b # "none"
         THEN [data |-> i.data, res |-> Err("AccountBorrowFailed")]
         ELSE LET r == TrySerialize(account, BpfWriterNew(i.data))
              IN [data |-> r.w.inner,
                  res |-> IF r.ok THEN Ok ELSE Err("AccountDidNotSerialize")]
    ELSE [data |-> i.data, res |-> Ok]

\* exit without the is_closed test.
exit_ignoring_closed(account, i, b, expected_owner, program_id) ==
    IF expected_owner = program_id
    THEN IF b # "none"
         THEN [data |-> i.data, res |-> Err("AccountBorrowFailed")]
         ELSE LET r == TrySerialize(Migrate(account), BpfWriterNew(i.data))
              IN [data |-> r.w.inner,
                  res |-> IF r.ok THEN Ok ELSE Err("AccountDidNotSerialize")]
    ELSE [data |-> i.data, res |-> Ok]

\* exit that drops the result of try_serialize (no `?`).
exit_dropping_error(account, i, b, expected_owner, program_id) ==
    IF expected_owner = program_id /\ ~is_closed(i)
    THEN IF b # "none"
         THEN [data |-> i.data, res |-> Err("AccountBorrowFailed")]
         ELSE LET r == TrySerialize(Migrate(account), BpfWriterNew(i.data))
              IN [data |-> r.w.inner, res |-> Ok]
    ELSE [data |-> i.data, res |-> Ok]

\* exit that clears the bytes after the serialized value.
exit_clearing_tail(account, i, b, expected_owner, program_id) ==
    IF expected_owner = program_id /\ ~is_closed(i)
    THEN IF b # "none"
         THEN [data |-> i.data, res |-> Err("AccountBorrowFailed")]
         ELSE LET r == TrySerialize(Migrate(account), BpfWriterNew(i.data))
              IN [data |-> [k \in 1..Len(i.data) |->
                              IF k <= r.w.pos THEN r.w.inner[k] ELSE 0],
                  res |-> IF r.ok THEN Ok ELSE Err("AccountDidNotSerialize")]
    ELSE [data |-> i.data, res |-> Ok]

\* exit that writes behind a To value the record already holds.
exit_appending(account, i, b, expected_owner, program_id) ==
    IF expected_owner = program_id /\ ~is_closed(i)
    THEN IF b # "none"
         THEN [data |-> i.data, res |-> Err("AccountBorrowFailed")]
         ELSE LET held == TryDeserialize(DiscB, i.data).ok
                  start == IF held THEN DiscLen + BumpLen + VecLenLen + MigrateDataLen
                           ELSE 0
                  r == TrySerialize(Migrate(account),
                                    [inner |-> i.data, pos |-> start])
              IN [data |-> r.w.inner,
                  res |-> IF r.ok THEN Ok ELSE Err("AccountDidNotSerialize")]
    ELSE [data |-> i.data, res |-> Ok]

\* Result of exit_with_expected_owner: the record's bytes after and the return.
exit_with_expected_owner(account, i, b, expected_owner, program_id) ==
    IF expected_owner = program_id /\ ~is_closed(i)
    THEN IF b # "none"
         THEN [data |-> i.data, res |-> Err("AccountBorrowFailed")]
         ELSE LET r == TrySerialize(Migrate(account), BpfWriterNew(i.data))
              IN [data |-> r.w.inner,
                  res |-> IF r.ok THEN Ok ELSE Err("AccountDidNotSerialize")]
    ELSE [data |-> i.data, res |-> Ok]

\* reload that keeps a value the handle has changed since it was decoded.
reload_keeping_changes(account, i, b) ==
    IF b = "mut"
    THEN [account |-> account, res |-> Err("AccountBorrowFailed")]
    ELSE LET d == TryDeserialize(DiscA, i.data)
         IN IF d.ok THEN [account |-> IF account \in FromValues THEN account ELSE d.val,
                          res |-> Ok]
                    ELSE [account |-> account, res |-> Err(d.err)]

\* Result of reload: the handle's value after and the return.
reload(account, i, b) ==
    IF b = "mut"
    THEN [account |-> account, res |-> Err("AccountBorrowFailed")]
    ELSE LET d == TryDeserialize(DiscA, i.data)
         IN IF d.ok THEN [account |-> d.val, res |-> Ok]
                    ELSE [account |-> account, res |-> Err(d.err)]

\* set_inner that leaves the held value as it was.
set_inner_ignored(account, inner) == account

set_inner(account, inner) == inner

\* Field mutation through DerefMut (default build: the anchor-debug writability
\* panic is compiled out).
deref_mut(account, bump) == [account EXCEPT !.bump = bump]

\* ---------------------------------------------------------------- actions
Live(h) == handles[h].live

\* Handles are built in order: h is the lowest handle not live.
FirstFree(h) == ~Live(h) /\ \A g \in Handles : g < h => Live(g)

\* Every step, a call or an environment step, spends one of the MaxSteps.
Tick == steps < MaxSteps /\ steps' = steps + 1 /\ UNCHANGED <<cs, ta>>

\* try_from that refuses a record another handle still holds.
TryFromExclusive(h) ==
    /\ Tick
    /\ FirstFree(h)
    /\ LET held == \E g \in Handles \ {h} : handles[g].live /\ handles[g].exits = 0
           r == IF held THEN [res |-> Err("AccountBorrowFailed"), val |-> NoValue]
                ELSE try_from(info, borrow, fromOwner)
       IN /\ handles' = [handles EXCEPT ![h] =
                 IF r.res = Ok
                 THEN [live |-> TRUE, account |-> r.val, exits |-> 0]
                 ELSE NoHandle]
          /\ last' = Call("try_from", h, r.res)
    /\ UNCHANGED <<fromOwner, info, borrow>>

TryFrom(h) ==
    /\ Tick
    /\ FirstFree(h)
    /\ LET r == try_from(info, borrow, fromOwner)
       IN /\ handles' = [handles EXCEPT ![h] =
                 IF r.res = Ok
                 THEN [live |-> TRUE, account |-> r.val, exits |-> 0]
                 ELSE NoHandle]
          /\ last' = Call("try_from", h, r.res)
    /\ UNCHANGED <<fromOwner, info, borrow>>

TryFromUnchecked(h) ==
    /\ Tick
    /\ FirstFree(h)
    /\ LET r == try_from_unchecked(info, borrow, fromOwner)
       IN /\ handles' = [handles EXCEPT ![h] =
                 IF r.res = Ok
                 THEN [live |-> TRUE, account |-> r.val, exits |-> 0]
                 ELSE NoHandle]
          /\ last' = Call("try_from_unchecked", h, r.res)
    /\ UNCHANGED <<fromOwner, info, borrow>>

\* set_inner that also writes the new value through to the record.
SetInnerWriteThrough(h, inner) ==
    /\ Tick
    /\ Live(h)
    /\ handles' = [handles EXCEPT ![h].account = set_inner(@, inner)]
    /\ info' = [info EXCEPT !.data = Fit(Serialized(DiscA, inner), Len(info.data))]
    \* arg: the value passed in; old: the value it replaced
    /\ last' = [op |-> "set_inner", h |-> h, res |-> Ok, eo |-> "-", pid |-> "-",
                arg |-> inner, old |-> handles[h].account]
    /\ UNCHANGED <<fromOwner, borrow>>

SetInner(h, inner) ==
    /\ Tick
    /\ Live(h)
    /\ handles' = [handles EXCEPT ![h].account = set_inner(@, inner)]
    \* arg: the value passed in; old: the value it replaced
    /\ last' = [op |-> "set_inner", h |-> h, res |-> Ok, eo |-> "-", pid |-> "-",
                arg |-> inner, old |-> handles[h].account]
    /\ UNCHANGED <<fromOwner, info, borrow>>

DerefMut(h, bump) ==
    /\ Tick
    /\ Live(h)
    /\ handles' = [handles EXCEPT ![h].account = deref_mut(@, bump)]
    /\ last' = Call("deref_mut", h, Ok)
    /\ UNCHANGED <<fromOwner, info, borrow>>

Reload(h) ==
    /\ Tick
    /\ Live(h)
    /\ LET r == reload(handles[h].account, info, borrow)
       IN /\ handles' = [handles EXCEPT ![h].account = r.account]
          \* old: the value the handle held when reload was called
          /\ last' = [op |-> "reload", h |-> h, res |-> r.res, eo |-> "-", pid |-> "-",
                      old |-> handles[h].account]
    /\ UNCHANGED <<fromOwner, info, borrow>>

IntoInner(h) ==
    /\ Tick
    /\ Live(h)
    /\ handles' = [handles EXCEPT ![h] = NoHandle]
    /\ last' = Call("into_inner", h, Ok)
    /\ UNCHANGED <<fromOwner, info, borrow>>

\* exit that consumes the handle (self instead of &self).
ExitStepConsuming(op, h, expected_owner, program_id) ==
    /\ Tick
    /\ Live(h)
    /\ LET r == exit_with_expected_owner(handles[h].account, info, borrow,
                                         expected_owner, program_id)
       IN /\ info' = [info EXCEPT !.data = r.data]
          \* replaced: the value a set_inner on h replaced in the step before
          /\ last' = [op |-> op, h |-> h, res |-> r.res,
                      eo |-> expected_owner, pid |-> program_id,
                      replaced |-> IF last.op = "set_inner" /\ last.h = h
                                   THEN last.old ELSE NoValue,
                      \* again: the step before was the same call and returned Ok
                      again |-> /\ last.op \in {"exit", "exit_with_expected_owner"}
                                /\ last.h = h /\ last.res = Ok
                                /\ last.eo = expected_owner
                                /\ last.pid = program_id]
    /\ handles' = [handles EXCEPT ![h] = NoHandle]
    /\ UNCHANGED <<fromOwner, borrow>>

ExitStep(op, h, expected_owner, program_id) ==
    /\ Tick
    /\ Live(h)
    /\ LET r == exit_with_expected_owner(handles[h].account, info, borrow,
                                         expected_owner, program_id)
       IN /\ info' = [info EXCEPT !.data = r.data]
          \* replaced: the value a set_inner on h replaced in the step before
          /\ last' = [op |-> op, h |-> h, res |-> r.res,
                      eo |-> expected_owner, pid |-> program_id,
                      replaced |-> IF last.op = "set_inner" /\ last.h = h
                                   THEN last.old ELSE NoValue,
                      \* again: the step before was the same call and returned Ok
                      again |-> /\ last.op \in {"exit", "exit_with_expected_owner"}
                                /\ last.h = h /\ last.res = Ok
                                /\ last.eo = expected_owner
                                /\ last.pid = program_id]
    /\ handles' = [handles EXCEPT ![h].exits = @ + 1]
    /\ UNCHANGED <<fromOwner, borrow>>

ExitWithExpectedOwner(h, expected_owner, program_id) ==
    ExitStep("exit_with_expected_owner", h, expected_owner, program_id)

\* AccountsExit::exit
Exit(h, program_id) == ExitStep("exit", h, fromOwner, program_id)

\* AccountsClose::close
Close(h) ==
    /\ Tick
    /\ Live(h)
    /\ ~info.closed
    /\ info' = [info EXCEPT !.closed = TRUE]
    /\ last' = Call("close", h, Ok)
    /\ UNCHANGED <<fromOwner, borrow, handles>>

\* ------------------------------------------------ the record's environment
\* Ownership of the record is transferred elsewhere.
AssignOwner(o) ==
    /\ Tick
    /\ o # info.owner
    /\ info' = [info EXCEPT !.owner = o]
    /\ last' = NoCall
    /\ UNCHANGED <<fromOwner, borrow, handles>>

\* Another program rewrites the whole record while a handle is held (a side
\* effect of a CPI): a serialized From value, the rest of the buffer 0xff.
ExternalWrite(v) ==
    /\ Tick
    /\ \E h \in Handles : Live(h)
    /\ LET bytes == Serialized(DiscA, v)
           new == [i \in 1..Len(info.data) |->
                     IF i <= Len(bytes) THEN bytes[i] ELSE 255]
       IN /\ new # info.data
          /\ info' = [info EXCEPT !.data = new]
    /\ last' = NoCall
    /\ UNCHANGED <<fromOwner, borrow, handles>>

\* The calling code takes or releases a borrow of the record's bytes.
CallerBorrow(kind) ==
    /\ Tick
    /\ borrow = "none"
    /\ borrow' = kind
    /\ last' = NoCall
    /\ UNCHANGED <<fromOwner, info, handles>>

CallerRelease ==
    /\ Tick
    /\ borrow # "none"
    /\ borrow' = "none"
    /\ last' = NoCall
    /\ UNCHANGED <<fromOwner, info, handles>>

Next ==
    \/ \E h \in Handles : TryFrom(h)
    \/ \E h \in Handles : TryFromUnchecked(h)
    \/ \E h \in Handles, v \in FromValues : SetInner(h, v)
    \/ \E h \in Handles, b \in 1..MaxBump : DerefMut(h, b)
    \/ \E h \in Handles : Reload(h)
    \/ \E h \in Handles : IntoInner(h)
    \/ \E h \in Handles, eo \in Owners \ {fromOwner}, pid \in Owners :
          ExitWithExpectedOwner(h, eo, pid)
    \/ \E h \in Handles, pid \in Owners : Exit(h, pid)
    \/ \E h \in Handles : Close(h)
    \/ \E o \in Owners : AssignOwner(o)
    \/ \E v \in FromValues : ExternalWrite(v)
    \/ \E k \in {"shared", "mut"} : CallerBorrow(k)
    \/ CallerRelease

Spec == Init /\ [][Next]_vars

\* ======================================================= CompressedState
HashBytes == HashEnd - 1

RECURSIVE SumSeq(_)
SumSeq(q) == IF q = <<>> THEN 0 ELSE Head(q) + SumSeq(Tail(q))

\* solana_program::hash::hash: a fixed function from byte strings to HashBytes
\* bytes.  Stand-in: a digest of the bytes' sum and count, so that distinct
\* strings can collide (<<1, 2>> and <<2, 1>>).
hash(state) == [i \in 1..HashBytes |-> (7 * SumSeq(state) + Len(state) + i) % 256]

\* Candidate states handed to verify_state.
CandBytes == {1, 2}
Candidates == UNION {[1..n -> CandBytes] : n \in 0..MaxCand}

\* Inputs of try_from: the empty input, and a version byte followed by a cut
\* of a commitment with MaxTrail further bytes behind it.
Tags == {0, 1, 2, 255}
Body(c) == hash(c) \o [i \in 1..MaxTrail |-> 9]
Cuts == {0, 1, HashBytes - 1} \cup (HashBytes..(HashBytes + MaxTrail))
Inputs == {<<>>} \cup {<<t>> \o SubSeq(Body(c), 1, k) :
                         t \in Tags, c \in Candidates, k \in Cuts}

\* TryFrom<&u8> for CompressedStateVersion that takes every other byte for Zero.
CompressedStateVersion_try_from_lenient(value) ==
    IF value = 1 THEN [res |-> Ok, val |-> "Hash"] ELSE [res |-> Ok, val |-> "Zero"]

\* TryFrom<&u8> for CompressedStateVersion
CompressedStateVersion_try_from(value) ==
    IF value = 0 THEN [res |-> Ok, val |-> "Zero"]
    ELSE IF value = 1 THEN [res |-> Ok, val |-> "Hash"]
    ELSE [res |-> Err("CompressedStateInvalidVersion"), val |-> NoValue]

\* try_from that takes every byte after the version byte as the commitment.
CompressedState_try_from_rest(data) ==
    IF Len(data) = 0
    THEN [res |-> Err("CompressedStateDidNotDeserialize"), val |-> NoValue]
    ELSE LET version == CompressedStateVersion_try_from(data[1])
         IN IF version.res # Ok THEN [res |-> version.res, val |-> NoValue]
            ELSE IF version.val = "Zero"
            THEN [res |-> Ok, val |-> [version |-> "Zero", state |-> <<>>]]
            ELSE IF Len(data) >= HashEnd
            THEN [res |-> Ok, val |-> [version |-> "Hash", state |-> Tail(data)]]
            ELSE [res |-> Err("CompressedStateDidNotDeserialize"), val |-> NoValue]

\* try_from that accepts a commitment cut short by the end of the input.
CompressedState_try_from_short(data) ==
    IF Len(data) = 0
    THEN [res |-> Err("CompressedStateDidNotDeserialize"), val |-> NoValue]
    ELSE LET version == CompressedStateVersion_try_from(data[1])
         IN IF version.res # Ok THEN [res |-> version.res, val |-> NoValue]
            ELSE IF version.val = "Zero"
            THEN [res |-> Ok, val |-> [version |-> "Zero", state |-> <<>>]]
            ELSE [res |-> Ok, val |-> [version |-> "Hash",
                     state |-> SubSeq(data, 2, Min(HashEnd, Len(data)))]]

\* CompressedState::try_from: data.get(0) is data[1], data.get(1..33) is
\* SubSeq(data, 2, HashEnd) and is None when the input has fewer than HashEnd bytes.
CompressedState_try_from(data) ==
    IF Len(data) = 0
    THEN [res |-> Err("CompressedStateDidNotDeserialize"), val |-> NoValue]
    ELSE LET version == CompressedStateVersion_try_from(data[1])
         IN IF version.res # Ok THEN [res |-> version.res, val |-> NoValue]
            ELSE IF version.val = "Zero"
            THEN [res |-> Ok, val |-> [version |-> "Zero", state |-> <<>>]]
            ELSE IF Len(data) >= HashEnd
            THEN [res |-> Ok, val |-> [version |-> "Hash",
                                       state |-> SubSeq(data, 2, HashEnd)]]
            ELSE [res |-> Err("CompressedStateDidNotDeserialize"), val |-> NoValue]

\* verify_state that accepts every candidate.
verify_state_unchecked(self, state) == Ok

\* verify_state that compares the candidate's hash for version Zero as well.
verify_state_always_compared(self, state) ==
    IF hash(state) = self.state THEN Ok ELSE Err("CompressedStateMismatch")

\* CompressedState::verify_state
verify_state(self, state) ==
    IF self.version = "Zero" THEN Ok
    ELSE IF hash(state) = self.state THEN Ok
    ELSE Err("CompressedStateMismatch")

\* The caller decodes the input it holds.
DecodeEnvelope ==
    /\ cs.op = "none"
    /\ cs' = [cs EXCEPT !.op = "try_from",
                        !.decoded = CompressedState_try_from(cs.data)]
    /\ UNCHANGED <<fromOwner, info, borrow, handles, last, steps, ta>>

\* The caller verifies a candidate state against the decoded envelope.
VerifyState(c) ==
    /\ cs.op # "none" /\ cs.decoded.res = Ok
    /\ cs' = [cs EXCEPT !.op = "verify_state", !.candidate = c,
                        !.verified = verify_state(cs.decoded.val, c)]
    /\ UNCHANGED <<fromOwner, info, borrow, handles, last, steps, ta>>

InitCS ==
    /\ fromOwner = "P"
    /\ info = [owner |-> "P", lamports |-> 10, data |-> <<>>, closed |-> FALSE]
    /\ borrow = "none"
    /\ handles = [h \in Handles |-> NoHandle]
    /\ last = NoCall
    /\ steps = 0
    /\ \E d \in Inputs : cs = Received(d)
    /\ ta = NoAccounts

NextCS ==
    \/ DecodeEnvelope
    \/ \E c \in Candidates : VerifyState(c)

SpecCS == InitCS /\ [][NextCS]_vars

\* ========================================================== try_accounts
\* Accounts a list can hold: two records of owner "P" with different values,
\* one of them with bytes that do not decode, a funded and an unfunded
\* system-owned record.
AccountSamples ==
    LET rec(o, l, d) == [owner |-> o, lamports |-> l, data |-> d, closed |-> FALSE]
        v1 == [bump |-> 1, data |-> <<>>]
    IN {rec("P", 10, Fit(Serialized(DiscA, v), SizeB)) : v \in FromValues}
       \cup {rec("P", 10, Fit(Serialized(DiscA, v1), DiscLen - 1)),
             rec(SystemProgram, 10, Fit(Serialized(DiscA, v1), SizeB)),
             rec(SystemProgram, 0, Fit(Serialized(DiscA, v1), SizeB))}

AccountLists == UNION {[1..n -> AccountSamples] : n \in 0..MaxAccounts}

\* try_accounts that puts the account back when try_from fails.
try_accounts_rewinding(accounts, b, fo) ==
    IF accounts = <<>>
    THEN [accounts |-> accounts, res |-> Err("AccountNotEnoughKeys"), val |-> NoValue]
    ELSE LET r == try_from(accounts[1], b, fo)
         IN [accounts |-> IF r.res = Ok THEN Tail(accounts) ELSE accounts,
             res |-> r.res, val |-> r.val]

\* Accounts::try_accounts for Migration: the list after, and the return.
try_accounts(accounts, b, fo) ==
    IF accounts = <<>>
    THEN [accounts |-> accounts, res |-> Err("AccountNotEnoughKeys"), val |-> NoValue]
    ELSE LET account == accounts[1]
             r == try_from(account, b, fo)
         IN [accounts |-> SubSeq(accounts, 2, Len(accounts)),
             res |-> r.res, val |-> r.val]

TryAccounts ==
    /\ LET r == try_accounts(ta.accounts, borrow, fromOwner)
       IN ta' = [accounts |-> r.accounts, op |-> "try_accounts",
                 before |-> ta.accounts, res |-> r.res, val |-> r.val]
    /\ UNCHANGED <<fromOwner, info, borrow, handles, last, steps, cs>>

InitTA ==
    /\ \E k \in 1..Len(OwnerList) : fromOwner = OwnerList[k]
    /\ info = [owner |-> "P", lamports |-> 10, data |-> <<>>, closed |-> FALSE]
    /\ borrow \in {"none", "mut"}
    /\ handles = [h \in Handles |-> NoHandle]
    /\ last = NoCall
    /\ steps = 0
    /\ cs = NoInput
    /\ \E l \in AccountLists : ta = Remaining(l)

NextTA == TryAccounts

SpecTA == InitTA /\ [][NextTA]_vars

\* ================================================================ claims
ExitOps == {"exit", "exit_with_expected_owner"}
NonExitCalls == {"try_from", "try_from_unchecked", "set_inner", "deref_mut",
                 "reload", "into_inner"}
IsExit(c) == c.op \in ExitOps
\* The persisting case of the exit recorded in c, on record i.
Persisting(c, i) == IsExit(c) /\ c.eo = c.pid /\ ~is_closed(i)
SerializedTo(v) == Serialized(DiscB, Migrate(v))
DecodedAs(v) == [ok |-> TRUE, val |-> v, err |-> "Ok"]

\* C1: try_from on a record that holds a valid From value v, is owned by
\* From::owner() and is free to borrow, followed at once by a persisting exit
\* on a buffer of at least the serialized size of migrate(v), leaves bytes that
\* decode as To to exactly migrate(v).
C1_RoundTrip ==
    [][ ( /\ last.op = "try_from" /\ last.res = Ok
          /\ IsExit(last') /\ last'.h = last.h
          /\ last'.eo = last'.pid /\ ~is_closed(info)
          /\ borrow = "none"
          /\ Len(info.data) >= Len(SerializedTo(TryDeserialize(DiscA, info.data).val)) )
        => TryDeserialize(DiscB, info'.data)
             = DecodedAs(Migrate(TryDeserialize(DiscA, info.data).val)) ]_vars

\* Reached: the second step was a persisting exit that returned Ok on a buffer
\* with spare bytes, and the bytes decode as To to migrate of the held value.
C1_Witness ==
    /\ steps = 2 /\ Persisting(last, info) /\ last.res = Ok
    /\ Len(info.data) > SizeB
    /\ handles[last.h].account \in FromValues
    /\ TryDeserialize(DiscB, info.data) = DecodedAs(Migrate(handles[last.h].account))

\* C2: when expected_owner # program_id or the record is closed, exit returns
\* Ok and the record's bytes after the call equal the bytes before it, whatever
\* value the handle holds.
C2_ExitNoOp ==
    [][ (IsExit(last') /\ (last'.eo # last'.pid \/ is_closed(info)))
        => (info'.data = info.data /\ last'.res = Ok) ]_vars

\* Reached: an exit under the right owner on a closed record returned Ok while
\* the handle held a value other than the one the bytes decode to.
C2_Witness ==
    /\ IsExit(last) /\ last.eo = last.pid /\ is_closed(info) /\ last.res = Ok
    /\ TryDeserialize(DiscA, info.data).ok
    /\ handles[last.h].account \in FromValues
    /\ handles[last.h].account # TryDeserialize(DiscA, info.data).val

\* C3 as stated: try_from fails with AccountOwnedByWrongProgram whenever the
\* record's owner differs from From::owner(), whatever its lamports and bytes.
C3_WrongOwnerAlways ==
    (last.op = "try_from" /\ info.owner # fromOwner)
        => last.res.code = "AccountOwnedByWrongProgram"

\* C3 amended: when the record's owner differs from From::owner(), try_from
\* fails with AccountOwnedByWrongProgram carrying (actual, expected), except
\* that a record owned by the system program with 0 lamports fails with
\* AccountNotInitialized; the bytes do not matter.
C3_WrongOwner ==
    (last.op = "try_from" /\ info.owner # fromOwner)
        => IF info.owner = SystemProgram /\ info.lamports = 0
           THEN last.res = Err("AccountNotInitialized")
           ELSE last.res = ErrKeys("AccountOwnedByWrongProgram", info.owner, fromOwner)

\* Reached: try_from on a funded record of the system program, From::owner()
\* being another program, returned AccountOwnedByWrongProgram.
C3_Witness ==
    /\ last.op = "try_from" /\ info.owner = SystemProgram /\ info.lamports > 0
    /\ fromOwner # SystemProgram
    /\ last.res = ErrKeys("AccountOwnedByWrongProgram", SystemProgram, fromOwner)

\* C4: try_from returns AccountNotInitialized if and only if the record's owner
\* is the system program and its lamports are 0.
C4_NotInitializedIff ==
    last.op = "try_from"
        => (last.res.code = "AccountNotInitialized"
              <=> (info.owner = SystemProgram /\ info.lamports = 0))

\* Reached: AccountNotInitialized for a record whose owner is From::owner()
\* (the system program) and whose bytes would decode.
C4_Witness ==
    /\ last.op = "try_from" /\ last.res = Err("AccountNotInitialized")
    /\ fromOwner = SystemProgram
    /\ TryDeserialize(DiscA, info.data).ok

\* C5 as stated: if the record's owner at the time of AccountsExit::exit is no
\* longer From::owner(), exit does not change the record's bytes.
C5_NoWriteAfterTransfer ==
    [][ (last'.op = "exit" /\ info.owner # fromOwner)
        => info'.data = info.data ]_vars

\* C6: in the persisting case, when the serialized To value is longer than the
\* record's buffer, exit returns an error.
C6_OverflowIsError ==
    (Persisting(last, info)
       /\ Len(SerializedTo(handles[last.h].account)) > Len(info.data))
        => last.res # Ok

\* Reached: a persisting exit with the buffer free to borrow and one byte short
\* returned the serialization error.
C6_Witness ==
    /\ Persisting(last, info) /\ borrow = "none"
    /\ Len(info.data) = SizeB - 1
    /\ last.res = Err("AccountDidNotSerialize")

\* C7 as stated: whenever exit returns an error, the record's bytes after the
\* call are identical to the bytes before it.
C7_NoPartialPersistence ==
    [][ (IsExit(last') /\ last'.res # Ok) => info'.data = info.data ]_vars

\* C8: try_from, try_from_unchecked, set_inner, deref_mut, reload and
\* into_inner, successful or failed, leave the record's bytes as they were.
C8_OnlyExitWrites ==
    [][ last'.op \in NonExitCalls => info'.data = info.data ]_vars

\* Reached: after set_inner, a reload that failed on the caller's borrow left
\* the handle with a value other than the one the untouched bytes decode to.
C8_Witness ==
    /\ steps = MaxSteps /\ last.op = "reload" /\ last.res.code = "AccountBorrowFailed"
    /\ TryDeserialize(DiscA, info.data).ok
    /\ handles[last.h].account \in FromValues
    /\ handles[last.h].account # TryDeserialize(DiscA, info.data).val

\* C9 as stated: while a handle built on the record has not exited, try_from
\* on the same record does not produce a second live handle.
C9_OneHandleAtATime ==
    ~( /\ last.op = "try_from" /\ last.res = Ok
       /\ \E g \in Handles \ {last.h} : handles[g].live /\ handles[g].exits = 0 )

\* C9 amended: try_from borrows the record's bytes only for the call, so it
\* succeeds whenever its own checks pass, also while another handle on the
\* record is live and has not exited; every handle's persisting exit that
\* returns Ok leaves the serialization of migrate of that handle's value at
\* the start of the record, so the last exit wins.
C9_LastExitWins ==
    /\ ( /\ last.op = "try_from"
         /\ ~(info.owner = SystemProgram /\ info.lamports = 0)
         /\ info.owner = fromOwner /\ borrow # "mut"
         /\ TryDeserialize(DiscA, info.data).ok )
       => (last.res = Ok /\ handles[last.h].live
            /\ handles[last.h].account = TryDeserialize(DiscA, info.data).val)
    /\ (Persisting(last, info) /\ last.res = Ok)
       => SubSeq(info.data, 1, Len(SerializedTo(handles[last.h].account)))
            = SerializedTo(handles[last.h].account)

\* Reached: two live handles holding different values, one of which has not
\* exited, and the other's persisting exit has just written the record.
C9_Witness ==
    /\ Persisting(last, info) /\ last.res = Ok
    /\ \E g \in Handles \ {last.h} :
         /\ handles[g].live /\ handles[g].exits = 0
         /\ handles[g].account.bump # handles[last.h].account.bump
    /\ TryDeserialize(DiscB, info.data) = DecodedAs(Migrate(handles[last.h].account))

\* C10 as stated: after exit has returned on a handle, no set_inner,
\* deref_mut, reload or further exit takes place on that handle.
C10_ExitIsTerminal ==
    [][ \A h \in Handles :
          handles[h].exits > 0
            => ~(last'.h = h /\ last'.op \in ExitOps \cup {"set_inner", "deref_mut", "reload"})
      ]_vars

\* C10 amended: exit takes the handle by reference and does not consume it:
\* when it returns (persisted, skipped or failed) the handle is still live and
\* holds the value it held before, so set_inner, reload and a further exit
\* remain possible on it and a further persisting exit writes the record again.
C10_ExitKeepsHandle ==
    [][ IsExit(last')
        => /\ handles'[last'.h].live
           /\ handles'[last'.h].account = handles[last'.h].account
           /\ \A g \in Handles \ {last'.h} : handles'[g] = handles[g] ]_vars

\* Reached: the only live handle has exited twice, and its latest exit
\* persisted the value it holds.
C10_Witness ==
    /\ steps = MaxSteps /\ Persisting(last, info) /\ last.res = Ok
    /\ handles[last.h].exits = 2
    /\ \A g \in Handles \ {last.h} : ~handles[g].live
    /\ TryDeserialize(DiscB, info.data) = DecodedAs(Migrate(handles[last.h].account))

\* C11: after a successful reload the handle's value is the decoding of the
\* record's current bytes, whatever value it held before; a persisting exit
\* that follows at once writes migrate of that decoded value.
C11_ReloadDiscards ==
    [][ /\ (last'.op = "reload" /\ last'.res = Ok)
           => handles'[last'.h].account = TryDeserialize(DiscA, info'.data).val
        /\ ( /\ last.op = "reload" /\ last.res = Ok
             /\ IsExit(last') /\ last'.h = last.h /\ last'.res = Ok
             /\ last'.eo = last'.pid /\ ~is_closed(info) )
           => TryDeserialize(DiscB, info'.data)
                = DecodedAs(Migrate(TryDeserialize(DiscA, info.data).val)) ]_vars

\* Reached: a successful reload replaced a value the handle held (last.old)
\* that differs from what the record's current bytes decode to.
C11_Witness ==
    /\ last.op = "reload" /\ last.res = Ok
    /\ last.old \in FromValues
    /\ last.old # TryDeserialize(DiscA, info.data).val
    /\ handles[last.h].account = TryDeserialize(DiscA, info.data).val

\* C17: a persisting exit writes the migration of the handle's current value:
\* set_inner(v) followed at once by a persisting exit of the same handle, on a
\* buffer free to borrow and large enough for migrate(v), leaves bytes that
\* decode as To to migrate(v), for every v.
C17_ExitWritesCurrent ==
    [][ ( /\ last.op = "set_inner"
          /\ IsExit(last') /\ last'.h = last.h
          /\ last'.eo = last'.pid /\ ~is_closed(info)
          /\ borrow = "none"
          /\ Len(info.data) >= Len(SerializedTo(last.arg)) )
        => /\ last'.res = Ok
           /\ TryDeserialize(DiscB, info'.data) = DecodedAs(Migrate(last.arg)) ]_vars

\* Reached: try_from, then a set_inner that replaced the constructed value by a
\* different one, then a persisting exit that wrote migrate of the new value.
C17_Witness ==
    /\ steps = 3 /\ Persisting(last, info) /\ last.res = Ok
    /\ last.replaced \in FromValues
    /\ handles[last.h].account \in FromValues
    /\ last.replaced # handles[last.h].account
    /\ TryDeserialize(DiscB, info.data) = DecodedAs(Migrate(handles[last.h].account))
    /\ TryDeserialize(DiscB, info.data) # DecodedAs(Migrate(last.replaced))

\* C18: a successful persisting exit overwrites the record in place from offset
\* 0 without resizing: the buffer keeps its length, its first n bytes are the
\* serialization of migrate(value), n being that serialization's length, and
\* every byte at offset n or later is unchanged.
C18_InPlaceOverwrite ==
    [][ ( /\ IsExit(last') /\ last'.res = Ok
          /\ last'.eo = last'.pid /\ ~is_closed(info) )
        => LET out == SerializedTo(handles[last'.h].account)
               n == Len(out)
           IN /\ Len(info'.data) = Len(info.data)
              /\ n <= Len(info.data)
              /\ SubSeq(info'.data, 1, n) = out
              /\ \A k \in (n + 1)..Len(info.data) : info'.data[k] = info.data[k] ]_vars

\* Reached: a persisting exit returned Ok on a buffer longer than the value it
\* wrote, and the bytes after the value still hold what another program had
\* left there.
C18_Witness ==
    /\ Persisting(last, info) /\ last.res = Ok
    /\ handles[last.h].account \in FromValues
    /\ Len(info.data) > Len(SerializedTo(handles[last.h].account))
    /\ SubSeq(info.data, 1, SizeB) = SerializedTo(handles[last.h].account)
    /\ info.data[Len(info.data)] = 255

Constructors == {"try_from", "try_from_unchecked"}
OwnershipErrors == {"AccountNotInitialized", "AccountOwnedByWrongProgram"}

\* C19: the construction checks run in the order uninitialized, owner, decode:
\* on a record whose owner differs from From::owner(), try_from and
\* try_from_unchecked return AccountNotInitialized (system-owned with zero
\* lamports) or else AccountOwnedByWrongProgram, never a borrow or codec
\* error, and build no handle, whatever the record's bytes are.
C19_OwnerBeforeDecode ==
    (last.op \in Constructors /\ info.owner # fromOwner)
    => /\ last.res.code \in OwnershipErrors
       /\ last.res.code = "AccountNotInitialized"
            <=> (info.owner = SystemProgram /\ info.lamports = 0)
       /\ ~Live(last.h)

\* Reached: try_from_unchecked on a record of another owner whose bytes do not
\* decode returned AccountOwnedByWrongProgram.
C19_Witness ==
    /\ last.op = "try_from_unchecked" /\ info.owner # fromOwner
    /\ ~TryDeserializeUnchecked(info.data).ok
    /\ last.res.code = "AccountOwnedByWrongProgram"

\* The part of a constructor's result that the initialization and ownership
\* checks decide: the error they raised, or that decoding was reached.
CheckOutcome(res) == IF res.code \in OwnershipErrors THEN res ELSE Err("decoding")

\* C20: try_from and try_from_unchecked apply the same initialization and
\* ownership checks: on every record either both return
\* AccountNotInitialized, or both return AccountOwnedByWrongProgram with the
\* same (actual, expected) pair, or both go on to borrow and decode.
C20_SameChecks ==
    /\ last.op = "try_from"
       => CheckOutcome(last.res)
            = CheckOutcome(try_from_unchecked(info, borrow, fromOwner).res)
    /\ last.op = "try_from_unchecked"
       => CheckOutcome(last.res) = CheckOutcome(try_from(info, borrow, fromOwner).res)

\* Reached: try_from_unchecked returned AccountOwnedByWrongProgram with the
\* pair try_from returns on the same record.
C20_Witness ==
    /\ last.op = "try_from_unchecked"
    /\ last.res = ErrKeys("AccountOwnedByWrongProgram", info.owner, fromOwner)
    /\ try_from(info, borrow, fromOwner).res = last.res

\* The envelope a successful try_from returned.
Envelope == cs.decoded.val
Decoded == cs.op # "none" /\ cs.decoded.res = Ok
Verified == cs.op = "verify_state"

\* C12: on an envelope of version Hash, verify_state(c) succeeds exactly when
\* hash(c) equals the stored 32-byte commitment byte for byte, and fails with
\* CompressedStateMismatch otherwise; so with commitment hash(S), verifying S
\* succeeds and verifying any S' with hash(S') # hash(S) is a mismatch.
C12_HashVerify ==
    (Verified /\ Envelope.version = "Hash")
    => /\ cs.verified = Ok <=> hash(cs.candidate) = Envelope.state
       /\ cs.verified \in {Ok, Err("CompressedStateMismatch")}
       /\ \A S \in Candidates :
             Envelope.state = hash(S)
             => /\ verify_state(Envelope, S) = Ok
                /\ \A T \in Candidates :
                      hash(T) # hash(S)
                      => verify_state(Envelope, T) = Err("CompressedStateMismatch")

\* Reached: a Hash envelope whose commitment is the hash of a non-empty state
\* accepted a candidate that is a different string with the same hash.
C12_Witness ==
    /\ Verified /\ Envelope.version = "Hash" /\ cs.verified = Ok
    /\ \E S \in Candidates :
          S # cs.candidate /\ S # <<>> /\ Envelope.state = hash(S)

\* C13: on an envelope of version Zero, verify_state succeeds for every
\* candidate, the empty one included; it never returns CompressedStateMismatch.
C13_ZeroVerify ==
    (Decoded /\ Envelope.version = "Zero")
    => /\ Verified => cs.verified = Ok
       /\ \A c \in Candidates : verify_state(Envelope, c) = Ok

\* Reached: a Zero envelope accepted a non-empty candidate.
C13_Witness ==
    /\ Verified /\ Envelope.version = "Zero"
    /\ cs.candidate # <<>> /\ cs.verified = Ok

\* C14: try_from fails with CompressedStateDidNotDeserialize on the empty
\* input and on input whose byte 0 is 1 and whose length is under 33, with
\* CompressedStateInvalidVersion on non-empty input whose byte 0 is neither 0
\* nor 1, whatever its length, and in no other case.
C14_DecodeErrors ==
    cs.op # "none"
    => cs.decoded.res =
         IF Len(cs.data) = 0 THEN Err("CompressedStateDidNotDeserialize")
         ELSE IF cs.data[1] = 1 /\ Len(cs.data) < 33
         THEN Err("CompressedStateDidNotDeserialize")
         ELSE IF cs.data[1] \notin {0, 1} THEN Err("CompressedStateInvalidVersion")
         ELSE Ok

\* Reached: an input long enough for a commitment was refused for its version
\* byte.
C14_Witness ==
    /\ cs.op = "try_from" /\ Len(cs.data) >= 33 /\ cs.data[1] \notin {0, 1}
    /\ cs.decoded.res = Err("CompressedStateInvalidVersion")

\* The bytes try_from consumes of an input it accepts.
Consumed(data) == IF data[1] = 0 THEN SubSeq(data, 1, 1) ELSE SubSeq(data, 1, 33)

\* C15: try_from on input whose byte 0 is 0 returns a Zero envelope with empty
\* payload; on input of length >= 33 whose byte 0 is 1 it returns a Hash
\* envelope whose payload is input bytes [1, 33); the bytes after the
\* consumed prefix do not affect the result.
C15_DecodeResult ==
    (cs.op # "none" /\ Len(cs.data) > 0)
    => /\ cs.data[1] = 0
          => cs.decoded = [res |-> Ok, val |-> [version |-> "Zero", state |-> <<>>]]
       /\ (cs.data[1] = 1 /\ Len(cs.data) >= 33)
          => cs.decoded = [res |-> Ok, val |-> [version |-> "Hash",
                              state |-> [i \in 1..32 |-> cs.data[i + 1]]]]
       /\ cs.decoded.res = Ok
          => cs.decoded = CompressedState_try_from(Consumed(cs.data))

\* Reached: a Hash envelope decoded from an input with bytes after the
\* commitment.
C15_Witness ==
    /\ cs.op = "try_from" /\ Len(cs.data) > 33 /\ cs.data[1] = 1
    /\ cs.decoded.res = Ok /\ Envelope.version = "Hash"
    /\ Envelope.state = SubSeq(cs.data, 2, 33)

\* C16: every envelope a successful try_from returns has payload length 0
\* when its version is Zero and exactly 32 when its version is Hash, and has
\* no other version.
C16_TagPayload ==
    Decoded
    => \/ Envelope.version = "Zero" /\ Len(Envelope.state) = 0
       \/ Envelope.version = "Hash" /\ Len(Envelope.state) = 32

\* Reached: a Hash envelope of 32 bytes decoded from exactly 33 bytes of
\* input.
C16_Witness ==
    /\ Decoded /\ Envelope.version = "Hash"
    /\ Len(cs.data) = 33 /\ Len(Envelope.state) = 32

\* C21: repeating exit is idempotent on the record: a call of
\* exit_with_expected_owner on a handle that follows at once a successful call
\* on the same handle with the same expected_owner and program_id (no
\* set_inner, mutation, reload or close between them) leaves the record's
\* bytes exactly as the first call left them.
C21_ExitIdempotent ==
    [][ ( /\ IsExit(last) /\ last.res = Ok
          /\ IsExit(last') /\ last'.h = last.h
          /\ last'.eo = last.eo /\ last'.pid = last.pid )
        => /\ info'.data = info.data
           /\ last'.res = Ok ]_vars

\* Reached: a persisting exit returned Ok right after the same persisting exit
\* of the same handle had returned Ok, on a record that holds the migrated
\* value.
C21_Witness ==
    /\ Persisting(last, info) /\ last.res = Ok /\ last.again
    /\ handles[last.h].exits >= 2
    /\ TryDeserialize(DiscB, info.data) = DecodedAs(Migrate(handles[last.h].account))

\* C22: try_accounts fails with AccountNotEnoughKeys and leaves the account
\* list unchanged when the list is empty; on a non-empty list it removes
\* exactly the first account and returns what try_from returns on that
\* account, the list being advanced by one also when try_from fails.
C22_TryAccounts ==
    ta.op = "try_accounts"
    => IF Len(ta.before) = 0
       THEN /\ ta.res = Err("AccountNotEnoughKeys")
            /\ ta.accounts = ta.before
       ELSE /\ Len(ta.accounts) = Len(ta.before) - 1
            /\ \A k \in 1..Len(ta.accounts) : ta.accounts[k] = ta.before[k + 1]
            /\ [res |-> ta.res, val |-> ta.val]
                 = try_from(ta.before[1], borrow, fromOwner)

\* Reached: try_from failed on the first of two different accounts, and the
\* list left holds the second account only.
C22_Witness ==
    /\ ta.op = "try_accounts" /\ Len(ta.before) = 2
    /\ ta.before[1] # ta.before[2]
    /\ ta.res.code \notin {"Ok", "AccountNotEnoughKeys"}
    /\ ta.accounts = <<ta.before[2]>>

====
